---- MODULE Spec2Model ----
(***************************************************************************)
(* Energy dashboard (shrasel/energy-dashboard): the startup fetch, the     *)
(* selection state (year, month, date range, sort, page), the derived      *)
(* views of the three front-end variants and the hourly detail view.       *)
(*                                                                         *)
(* Time.  A JavaScript Date is modelled by its time value, counted in      *)
(* ticks of half an hour since 2024-01-01T00:00Z.  Every instant the code  *)
(* builds lies on a whole hour (viewer offsets are whole hours) except the *)
(* end of a day, 23:59:59.999, which is modelled as the last tick of the   *)
(* day: it compares with whole-hour instants exactly as the millisecond    *)
(* value does.  An invalid Date (time value NaN) is InvalidDate.           *)
(***************************************************************************)
EXTENDS Integers, Sequences, FiniteSets, TLC

VARIABLES
    variant,          \* which front end runs: "chartjs", "apex" (React) or "angular"
    tz,               \* the viewer's offset from UTC, in hours
    pc,               \* fetchData: "await" (inside Promise.all) or "done"
    monthlyFetch,     \* the monthly request: [status, data]
    dailyFetch,       \* the daily request: [status, data]
    monthlyData, dailyData, loading, error,
    dateRange, selectedYear, selectedMonth, availableYears, availableMonths,
    sortConfig, currentPage, rowsPerPage,
    crashed,          \* a render threw: React unmounts the whole tree
    chosen,           \* the calendar days the user's last range choice named
    charts,           \* Angular: the chart data kept in fields, [monthly, daily]
    lastOp,           \* the operation that produced this state, with its input
    date, hourlyData, hLoading, hError, inflight, issued,   \* hourly detail view
    arg, res          \* input and running result of a pure function under test

dashVars == <<variant, tz, pc, monthlyFetch, dailyFetch, monthlyData, dailyData,
              loading, error, dateRange, selectedYear, selectedMonth,
              availableYears, availableMonths, sortConfig, currentPage,
              rowsPerPage, crashed, chosen, charts>>
hourlyVars == <<date, hourlyData, hLoading, hError, inflight, issued>>
fnVars == <<arg, res>>
vars == <<dashVars, hourlyVars, fnVars, lastOp>>

----------------------------------------------------------------------------
(* Bounds of the model *)

\* the largest monthly collection the data source returns
MaxMonthly == 11
\* the largest daily collection the data source returns
MaxDaily == 7
\* hourly requests issued in one run of the hourly view
MaxIssued == 3
\* the longest sequence handed to the pagination functions
MaxLen == 5
\* the largest page size handed to the pagination functions
MaxPageSize == 3
\* the longest record collection handed to the totals and the averages
MaxRecords == 3

----------------------------------------------------------------------------
(* Values *)

NULL == "null"
\* a year that is null (no year selected)
NoYear == 0
\* Number NaN where a year or a month is expected (a field of an invalid Date)
NaN == -1
InvalidDate == -1
\* the hourly view's date before the route has named a day: ''
NoDate == 0

TicksPerHour == 2
TicksPerDay == 24 * TicksPerHour

Min(a, b) == IF a < b THEN a ELSE b
Max(a, b) == IF a > b THEN a ELSE b

Reverse(s) == [i \in 1..Len(s) |-> s[Len(s) + 1 - i]]

----------------------------------------------------------------------------
(* The calendar behind Date: day numbers since 2024-01-01, months 0..11 as *)
(* in JavaScript.                                                          *)

IsLeap(y) == (y % 4 = 0 /\ y % 100 # 0) \/ y % 400 = 0

DaysInMonth(y, m) ==
    IF m = 1 THEN (IF IsLeap(y) THEN 29 ELSE 28)
    ELSE IF m \in {3, 5, 8, 10} THEN 30 ELSE 31

DaysInYear(y) == IF IsLeap(y) THEN 366 ELSE 365

RECURSIVE DaysBeforeYear(_)
DaysBeforeYear(y) ==
    IF y <= 2024 THEN 0 ELSE DaysBeforeYear(y - 1) + DaysInYear(y - 1)

RECURSIVE DaysBeforeMonth(_, _)
DaysBeforeMonth(y, m) ==
    IF m = 0 THEN 0 ELSE DaysBeforeMonth(y, m - 1) + DaysInMonth(y, m - 1)

\* the day number of day d of month m of year y; m and d may overflow as the
\* Date constructor lets them (month 12 is January of the next year, day 0 the
\* last day of the month before)
DayNum(y, m, d) ==
    LET yy == y + (m \div 12)
        mm == m % 12
    IN  DaysBeforeYear(yy) + DaysBeforeMonth(yy, mm) + d - 1

RECURSIVE YearOfDay(_, _)
YearOfDay(n, y) ==
    IF n < DaysBeforeYear(y + 1) THEN y ELSE YearOfDay(n, y + 1)

RECURSIVE MonthOfDay(_, _, _)
MonthOfDay(n, y, m) ==
    IF n < DaysBeforeYear(y) + DaysBeforeMonth(y, m + 1) THEN m
    ELSE MonthOfDay(n, y, m + 1)

\* <<year, month, day of month>> of day number n
CivilOfDay(n) ==
    LET y == YearOfDay(n, 2024)
        m == MonthOfDay(n, y, 0)
    IN  <<y, m, n - DayNum(y, m, 1) + 1>>

----------------------------------------------------------------------------
(* Date objects *)

\* new Date(y, m, d, h...) : the local wall-clock time, as an instant
LocalTime(y, m, d, ticksIntoDay) ==
    DayNum(y, m, d) * TicksPerDay + ticksIntoDay - tz * TicksPerHour

\* new Date("YYYY-MM-DD") : a date-only ISO string is midnight UTC
UtcMidnight(day) == day * TicksPerDay

\* the local calendar day number an instant falls on
LocalDay(t) == (t + tz * TicksPerHour) \div TicksPerDay

\* toISOString().split('T')[0] : the UTC calendar day number of an instant
UtcDay(t) == t \div TicksPerDay

getFullYear(t) == IF t = InvalidDate THEN NaN ELSE CivilOfDay(LocalDay(t))[1]
getMonth(t) == IF t = InvalidDate THEN NaN ELSE CivilOfDay(LocalDay(t))[2]
getDate(t) == IF t = InvalidDate THEN NaN ELSE CivilOfDay(LocalDay(t))[3]

----------------------------------------------------------------------------
(* Wire values.  A from_date is an ISO string [day, rest, kind |-> "iso"]  *)
(* (day: the day number its YYYY-MM-DD part names, rest: what follows it), *)
(* a string that is no date, or absent.                                    *)

\* (the fields of a record are written in the order TLC keeps them in)
IsoDate(day, rest) == [day |-> day, rest |-> rest, kind |-> "iso"]
Garbage == [kind |-> "text"]
Missing == [kind |-> "missing"]

\* a numeric string, and what stands in for one: absent, "" or other text
Num(v) == [kind |-> "num", v |-> v]
NumAbsent == [kind |-> "absent"]
NumEmpty == [kind |-> "empty"]
NumText == [kind |-> "text"]

Rec(d, c, g) ==
    [from_date |-> d, total_consumption |-> Num(c), total_charges |-> Num(g)]

\* dateString.split('T') on an absent value is a TypeError
parseApiDateThrows(s) == s.kind = "missing"

\* a faulty variant, for comparison: new Date(dateString), the instant the
\* whole string names (a date-only string is midnight UTC)
parseApiDateWhole(s) ==
    IF s.kind = "iso"
    THEN s.day * TicksPerDay
            + (IF s.rest = "T23:00:00-08:00" THEN 31 * TicksPerHour ELSE 0)
    ELSE InvalidDate

\* new Date(datePart + 'T12:00:00') : local noon of the date part
parseApiDate(s) ==
    IF s.kind = "iso"
    THEN s.day * TicksPerDay + 12 * TicksPerHour - tz * TicksPerHour
    ELSE InvalidDate

\* a relational comparison of two Dates: any comparison with NaN is false
DateGe(a, b) == a # InvalidDate /\ b # InvalidDate /\ a >= b
DateLe(a, b) == a # InvalidDate /\ b # InvalidDate /\ a <= b

\* new Date(year, month, day, ...) with a NaN field is an invalid Date
NewLocalDate(y, m, d, ticksIntoDay) ==
    IF y = NaN \/ m = NaN THEN InvalidDate ELSE LocalTime(y, m, d, ticksIntoDay)

----------------------------------------------------------------------------
(* What the data source may return *)

\* the newest month of the monthly collection: March 2025, as a month index
NewestMonth == 2025 * 12 + 2

\* n monthly records, newest first, one per month going back from NewestMonth
MonthlyGen(n) ==
    [i \in 1..n |->
        LET k == NewestMonth - (i - 1)
        IN  Rec(IsoDate(DayNum(k \div 12, k % 12, 1), "T00:00:00.000Z"),
                100 + 10 * ((i * 3) % 7), 20 + (i % 4))]

\* the days the daily records fall on, as offsets from 2025-04-30, newest first:
\* Jun 1, May 31, May 12, May 11, May 10, May 1, Apr 30
DailyOffsets == <<32, 31, 12, 11, 10, 1, 0, -1, -2>>

DailyGen(n) ==
    [i \in 1..n |->
        Rec(IsoDate(DayNum(2025, 3, 30) + DailyOffsets[i], ""), 10 + i, 2 + (i % 3))]

\* s with its i-th record's from_date replaced
WithDate(s, i, d) == [s EXCEPT ![i].from_date = d]

HasMissingDate(s) == \E i \in 1..Len(s) : parseApiDateThrows(s[i].from_date)

\* what "now" may be when the startup fetch completes: <<year, month>>
NowChoices == {<<2025, 4>>, <<2026, 10>>}

ErrMonthly == "monthly request failed"
ErrDaily == "daily request failed"
ErrType == "Cannot read properties of undefined (reading 'split')"

----------------------------------------------------------------------------
(* Array.prototype.sort with a numeric comparator.  With NaN among the     *)
(* elements the comparator is inconsistent and the order is left to the    *)
(* engine: every ordering is a possible outcome.                           *)

RECURSIVE Orderings(_)
Orderings(S) ==
    IF S = {} THEN {<<>>}
    ELSE UNION {{<<x>> \o t : t \in Orderings(S \ {x})} : x \in S}

\* bad: the elements the comparator yields NaN for; before: the pairs
\* <<a, b>> the comparator puts a before b for
SortOutcomes(S, bad, before) ==
    IF bad # {} THEN Orderings(S)
    ELSE {s \in Orderings(S) :
            \A i, j \in 1..Len(s) : i < j => <<s[i], s[j]>> \in before}

YearOf(r) == getFullYear(parseApiDate(r.from_date))

\* [...new Set(monthlyData.map(year))].sort((a, b) => b - a)
YearsOutcomes(m) ==
    LET years == {YearOf(m[i]) : i \in 1..Len(m)}
    IN  SortOutcomes(years, {y \in years : y = NaN},
                     {p \in years \X years : p[1] > p[2]})

MonthEntry(y, m) == [year |-> y, month |-> m, value |-> <<y, m>>]
NoMonth == [year |-> NoYear, month |-> NaN, value |-> <<>>]

MonthOf(r) ==
    LET t == parseApiDate(r.from_date) IN MonthEntry(getFullYear(t), getMonth(t))

\* the distinct months of the daily records, newest first
MonthsOutcomes(d) ==
    LET months == {MonthOf(d[i]) : i \in 1..Len(d)}
    IN  SortOutcomes(months, {e \in months : e.year = NaN},
                     {p \in months \X months :
                        \/ p[1].year > p[2].year
                        \/ (p[1].year = p[2].year /\ p[1].month > p[2].month)})

----------------------------------------------------------------------------
(* Derived views: recomputed from the state on every render (React) or on  *)
(* every read of the getter (Angular).                                     *)

React == {"chartjs", "apex"}
HasTable == {"apex", "angular"}

\* a value used as a condition: null, NaN and 0 are falsy
Truthy(y) == y # NoYear /\ y # NaN

\* a faulty variant, for comparison: the year is ignored
filteredMonthlyDataAllYears == monthlyData

\* the year filter over the collection m with the year selected
filterByYear(m, year) ==
    IF Truthy(year) THEN SelectSeq(m, LAMBDA r : YearOf(r) = year) ELSE m

filteredMonthlyData == filterByYear(monthlyData, selectedYear)

\* parseFloat(x || 0)
parseFloatOr0(w) ==
    IF w.kind = "num" THEN w.v
    ELSE IF w.kind \in {"absent", "empty"} THEN 0 ELSE NaN

\* whether the value a record is sorted by is null: only _dateObj can be,
\* and only where it is built as item.from_date ? parseApiDate(...) : null
SortNull(r, key) ==
    key = "from_date" /\ variant = "apex" /\ r.from_date.kind = "missing"

\* the value a record is sorted by
SortValue(r, key) ==
    IF key = "from_date" THEN parseApiDate(r.from_date)
    ELSE IF key = "total_consumption" THEN parseFloatOr0(r.total_consumption)
    ELSE parseFloatOr0(r.total_charges)

\* a faulty variant, for comparison: a null value is compared as the smallest
\* value, so the direction moves it
compareNullsLow(a, b, cfg) ==
    LET av == SortValue(a, cfg.key)
        bv == SortValue(b, cfg.key)
        lt == IF cfg.direction = "asc" THEN -1 ELSE 1
    IN  IF SortNull(a, cfg.key) /\ SortNull(b, cfg.key) THEN 0
        ELSE IF SortNull(a, cfg.key) THEN lt
        ELSE IF SortNull(b, cfg.key) THEN 0 - lt
        ELSE IF av = NaN \/ bv = NaN THEN 0
        ELSE IF av < bv THEN lt
        ELSE IF av > bv THEN 0 - lt
        ELSE 0

\* the comparator of items.sort: negative, zero or positive
compare(a, b, cfg) ==
    LET av == SortValue(a, cfg.key)
        bv == SortValue(b, cfg.key)
    IN  IF SortNull(a, cfg.key) /\ SortNull(b, cfg.key) THEN 0
        ELSE IF SortNull(a, cfg.key) THEN 1
        ELSE IF SortNull(b, cfg.key) THEN -1
        ELSE IF av = NaN \/ bv = NaN THEN 0
        ELSE IF av < bv THEN (IF cfg.direction = "asc" THEN -1 ELSE 1)
        ELSE IF av > bv THEN (IF cfg.direction = "asc" THEN 1 ELSE -1)
        ELSE 0

\* a faulty variant, for comparison: x is placed before the elements it
\* compares equal to
RECURSIVE InsertBeforeEqual(_, _, _)
InsertBeforeEqual(s, x, cfg) ==
    IF s = <<>> THEN <<x>>
    ELSE IF compare(s[Len(s)], x, cfg) < 0 THEN Append(s, x)
    ELSE Append(InsertBeforeEqual(SubSeq(s, 1, Len(s) - 1), x, cfg), s[Len(s)])

\* x placed into the sorted sequence s after every element it does not precede
RECURSIVE Insert(_, _, _)
Insert(s, x, cfg) ==
    IF s = <<>> THEN <<x>>
    ELSE IF compare(s[Len(s)], x, cfg) <= 0 THEN Append(s, x)
    ELSE Append(Insert(SubSeq(s, 1, Len(s) - 1), x, cfg), s[Len(s)])

\* Array.prototype.sort: a stable sort
RECURSIVE StableSort(_, _)
StableSort(s, cfg) ==
    IF s = <<>> THEN <<>>
    ELSE Insert(StableSort(SubSeq(s, 1, Len(s) - 1), cfg), s[Len(s)], cfg)

sortedMonthly == StableSort(filteredMonthlyData, sortConfig)

\* Math.ceil(n / size)
Ceil(n, size) == (n + size - 1) \div size

\* Math.max(1, Math.ceil(length / rowsPerPage))
TotalPagesOf(n, size) == Max(1, Ceil(n, size))

totalPages == TotalPagesOf(Len(sortedMonthly), rowsPerPage)

\* a faulty variant, for comparison: the slice starts one element late
PageSliceLate(s, page, size) ==
    LET start == (page - 1) * size + 1
    IN  SubSeq(s, Min(start, Len(s)) + 1, Min(start + size, Len(s)))

\* s.slice(start, start + size) with start = (page - 1) * size
PageSlice(s, page, size) ==
    LET start == (page - 1) * size
    IN  SubSeq(s, Min(start, Len(s)) + 1, Min(start + size, Len(s)))

paginatedMonthly == PageSlice(sortedMonthly, currentPage, rowsPerPage)

----------------------------------------------------------------------------
(* Numbers.  A JavaScript Number is modelled exactly: a finite value is    *)
(* the fraction n / d in lowest terms (d > 0); NaN and the infinities are  *)
(* values of their own.  The rounding error of binary floating point is    *)
(* not modelled.                                                           *)

RECURSIVE GCD(_, _)
GCD(a, b) == IF b = 0 THEN a ELSE GCD(b, a % b)

Abs(x) == IF x < 0 THEN -x ELSE x

Fin(n, d) ==
    LET g == GCD(Abs(n), d) IN [d |-> d \div g, n |-> n \div g, k |-> "fin"]
NaNum == [d |-> 0, n |-> 0, k |-> "nan"]
\* s: 1 for Infinity, -1 for -Infinity
Inf(s) == [d |-> 0, n |-> s, k |-> "inf"]

Zero == Fin(0, 1)
Sign(x) == IF x.n > 0 THEN 1 ELSE IF x.n < 0 THEN -1 ELSE 0

isFinite(x) == x.k = "fin"

\* a + b
NumAdd(a, b) ==
    IF a.k = "nan" \/ b.k = "nan" THEN NaNum
    ELSE IF a.k = "inf" /\ b.k = "inf" THEN (IF a.n = b.n THEN a ELSE NaNum)
    ELSE IF a.k = "inf" THEN a
    ELSE IF b.k = "inf" THEN b
    ELSE Fin(a.n * b.d + b.n * a.d, a.d * b.d)

NumNeg(a) == IF a.k = "nan" THEN NaNum ELSE [a EXCEPT !.n = -a.n]

\* a - b
NumSub(a, b) == NumAdd(a, NumNeg(b))

\* a * b
NumMul(a, b) ==
    IF a.k = "nan" \/ b.k = "nan" THEN NaNum
    ELSE IF a.k = "inf" \/ b.k = "inf"
         THEN (IF Sign(a) * Sign(b) = 0 THEN NaNum ELSE Inf(Sign(a) * Sign(b)))
    ELSE Fin(a.n * b.n, a.d * b.d)

\* a / b: a finite value over zero is an infinity, 0 / 0 is NaN (the sign of
\* a zero is not modelled: a zero divisor counts as +0)
NumDiv(a, b) ==
    IF a.k = "nan" \/ b.k = "nan" THEN NaNum
    ELSE IF a.k = "inf" THEN (IF b.k = "inf" THEN NaNum
                              ELSE Inf(a.n * (IF b.n < 0 THEN -1 ELSE 1)))
    ELSE IF b.k = "inf" THEN Zero
    ELSE IF b.n = 0 THEN (IF a.n = 0 THEN NaNum ELSE Inf(Sign(a)))
    ELSE Fin(a.n * b.d * Sign(b), a.d * Abs(b.n))

\* a > b: false when either is NaN
NumGt(a, b) ==
    /\ a.k # "nan" /\ b.k # "nan"
    /\ IF a.k = "inf" THEN a.n = 1 /\ b # a
       ELSE IF b.k = "inf" THEN b.n = -1
       ELSE a.n * b.d > b.n * a.d

\* parseFloat of a wire value: undefined, '' and other text give NaN
parseFloat(w) == IF w.kind = "num" THEN Fin(w.v, 1) ELSE NaNum

\* parseFloat(x || 0): undefined and '' are falsy and give 0
parseFloatOrZero(w) ==
    IF w.kind \in {"absent", "empty"} THEN Zero ELSE parseFloat(w)

\* x.toFixed(digits), as the number of units of 10^-digits it prints: the
\* nearest one, a tie going away from zero; "NaN" and "Infinity" otherwise
toFixed(x, digits) ==
    IF x.k # "fin" THEN [k |-> x.k, digits |-> digits, units |-> x.n]
    ELSE LET scale == 10 ^ digits
             mag == (2 * Abs(x.n) * scale + x.d) \div (2 * x.d)
         IN  [k |-> "fixed", digits |-> digits, units |-> Sign(x) * mag]

\* Math.round(x): the nearest integer, a tie going up
MathRound(x) ==
    IF x.k # "fin" THEN x ELSE Fin((2 * x.n + x.d) \div (2 * x.d), 1)

\* Math.min(a, b) and Math.max(a, b): NaN when either is
MathMin(a, b) ==
    IF a.k = "nan" \/ b.k = "nan" THEN NaNum ELSE IF NumGt(a, b) THEN b ELSE a
MathMax(a, b) ==
    IF a.k = "nan" \/ b.k = "nan" THEN NaNum ELSE IF NumGt(b, a) THEN b ELSE a

----------------------------------------------------------------------------
(* Totals and averages *)

\* records.reduce((sum, item) => sum + parseFloat(item[field] || 0), 0); the
\* hourly totals fall back on item.consumption / item.charges, which the
\* records of the model do not carry
RECURSIVE SumOf(_, _)
SumOf(s, field) ==
    IF s = <<>> THEN Zero
    ELSE NumAdd(SumOf(SubSeq(s, 1, Len(s) - 1), field),
                parseFloatOrZero(s[Len(s)][field]))

totalHourlyKwh(h) == SumOf(h, "total_consumption")
totalHourlyCharges(h) == SumOf(h, "total_charges")

\* hourlyData.length > 0 ? totalHourlyKwh / hourlyData.length : 0
averageHourlyUsage(h) ==
    IF Len(h) > 0 THEN NumDiv(totalHourlyKwh(h), Fin(Len(h), 1)) ELSE Zero

\* a faulty variant, for comparison: the total of the selected year only
ytdConsumptionOfYear == SumOf(filteredMonthlyData, "total_consumption")

ytdConsumption == SumOf(monthlyData, "total_consumption")
ytdCharges == SumOf(monthlyData, "total_charges")

\* monthlyData.reduce((max, item) => parseFloat(item.total_consumption)
\*     > parseFloat(max?.total_consumption ?? 0) ? item : max, monthlyData[0] || {});
\* the empty object {} is a record with every field absent
highestMonthData ==
    LET m == monthlyData
        ofMax(w) == IF w.kind = "absent" THEN Zero ELSE parseFloat(w)
        max[i \in 1..Len(m)] ==
            IF i = 1 THEN 1
            ELSE LET before == max[i - 1]
                 IN  IF NumGt(parseFloat(m[i].total_consumption),
                              ofMax(m[before].total_consumption))
                     THEN i ELSE before
    IN  IF Len(m) = 0
        THEN [from_date |-> Missing, total_consumption |-> NumAbsent,
              total_charges |-> NumAbsent]
        ELSE m[max[Len(m)]]

\* consumption > 0 ? (charges / consumption).toFixed(3) : '0.000'
avgCostPerKwhOf(consumption, charges) ==
    IF NumGt(consumption, Zero) THEN toFixed(NumDiv(charges, consumption), 3)
    ELSE toFixed(Zero, 3)

avgCostPerKwh == avgCostPerKwhOf(ytdConsumption, ytdCharges)

----------------------------------------------------------------------------
(* Statistics of a collection: the month-over-month change, the figures of *)
(* a table row and the peak interval.                                      *)

\* [...monthlyData].filter(item => item && item.from_date)
\*     .sort((a, b) => parseApiDate(a.from_date) - parseApiDate(b.from_date))
dateSortedMonthly(m) ==
    StableSort(SelectSeq(m, LAMBDA r : r.from_date.kind # "missing"),
               [key |-> "from_date", direction |-> "asc"])

\* the change of the last month against the one before, as toFixed(1) prints
\* it, or null
monthlyChangeOf(m) ==
    LET sorted == dateSortedMonthly(m)
        n == Len(sorted)
    IN  IF n >= 2 /\ NumGt(parseFloatOrZero(sorted[n - 1].total_consumption), Zero)
        THEN toFixed(
                 NumMul(NumDiv(NumSub(parseFloatOrZero(sorted[n].total_consumption),
                                      parseFloatOrZero(sorted[n - 1].total_consumption)),
                               parseFloat(sorted[n - 1].total_consumption)),
                        Fin(100, 1)),
                 1)
        ELSE [k |-> "null", digits |-> 1, units |-> 0]

monthlyChange == monthlyChangeOf(monthlyData)

\* what the summary cards show
summaryCards ==
    [highest |-> highestMonthData, kwh |-> ytdConsumption, charges |-> ytdCharges,
     cost |-> avgCostPerKwh, change |-> monthlyChange]

\* a faulty variant, for comparison: the division is not guarded
getCostPerKwhUnguarded(consumption, charges) == NumDiv(charges, consumption)

\* consumption > 0 ? charges / consumption : 0
getCostPerKwh(consumption, charges) ==
    IF NumGt(consumption, Zero) THEN NumDiv(charges, consumption) ELSE Zero

\* Math.max(...monthlyData.map(m => parseFloat(m.total_consumption || '0')), 1)
RECURSIVE highestOf(_)
highestOf(m) ==
    IF m = <<>> THEN Fin(1, 1)
    ELSE MathMax(parseFloatOrZero(m[Len(m)].total_consumption),
                 highestOf(SubSeq(m, 1, Len(m) - 1)))

\* Math.min(100, Math.round((consumption / highest) * 100))
getTrendPercentage(m, consumption) ==
    MathMin(Fin(100, 1),
            MathRound(NumMul(NumDiv(consumption, highestOf(m)), Fin(100, 1))))

\* hourlyData.reduce((max, item) => consumption(item) > consumption(max)
\*     ? item : max, hourlyData[0]), as the position of the record it returns;
\* 'N/A' for an empty collection
peakInterval(h) ==
    LET max[i \in 1..Len(h)] ==
            IF i = 1 THEN 1
            ELSE LET before == max[i - 1]
                 IN  IF NumGt(parseFloatOrZero(h[i].total_consumption),
                              parseFloatOrZero(h[before].total_consumption))
                     THEN i ELSE before
    IN  IF Len(h) = 0 THEN [k |-> "N/A", index |-> 0]
        ELSE [k |-> "record", index |-> max[Len(h)]]

----------------------------------------------------------------------------
(* The date-range filter of the daily view, and the chart data *)

startOfDay(d) ==
    NewLocalDate(getFullYear(d), getMonth(d), getDate(d), 0)
endOfDay(d) ==
    NewLocalDate(getFullYear(d), getMonth(d), getDate(d), TicksPerDay - 1)

\* the predicate of dailyData.filter in front end v, for the date range given
InRangeOf(v, r, range) ==
    LET d == parseApiDate(r.from_date)
    IN  IF v = "angular"
        THEN DateGe(d, startOfDay(range.start)) /\ DateLe(d, endOfDay(range.end))
        ELSE DateGe(d, range.start) /\ DateLe(d, range.end)

InRange(r, range) == InRangeOf(variant, r, range)

\* dailyData.filter(...).reverse()
filterByRange(d, range) == Reverse(SelectSeq(d, LAMBDA r : InRange(r, range)))

\* the same, as front end v computes it
filterByRangeOf(v, d, range) ==
    Reverse(SelectSeq(d, LAMBDA r : InRangeOf(v, r, range)))

filteredDailyData == filterByRange(dailyData, dateRange)

\* a point of a chart series: its label (the month, and for a daily record
\* the day too), parseFloat(total_consumption) and parseFloat(total_charges)
ChartPoint(r, daily) ==
    LET t == parseApiDate(r.from_date)
    IN  [charges |-> parseFloat(r.total_charges),
         kwh |-> parseFloat(r.total_consumption),
         label |-> IF daily THEN <<getDate(t), getMonth(t)>> ELSE <<getMonth(t)>>]

\* the chart data updateCharts() stores: updateMonthlyChart over
\* filteredMonthlyData, updateDailyChart over filteredDailyData, as they are
\* for the collections, the year and the date range given
updateCharts(m, year, d, range) ==
    LET fm == filterByYear(m, year)
        fd == filterByRange(d, range)
    IN  [daily |-> [i \in 1..Len(fd) |-> ChartPoint(fd[i], TRUE)],
         monthly |-> [i \in 1..Len(fm) |-> ChartPoint(fm[i], FALSE)]]

----------------------------------------------------------------------------
(* Construction *)

\* lastOp: the operation and its input, a record
Op(name, a) == [op |-> name, a |-> a]
None == [none |-> TRUE]

\* useState({start: new Date('2025-05-01'), end: new Date('2025-05-31')})
InitialRange ==
    [start |-> UtcMidnight(DayNum(2025, 4, 1)), end |-> UtcMidnight(DayNum(2025, 4, 31))]

InitDashboard(variants, offsets) ==
    /\ variant \in variants
    /\ tz \in offsets
    /\ pc = "await"
    /\ monthlyFetch = [status |-> "pending", data |-> <<>>]
    /\ dailyFetch = [status |-> "pending", data |-> <<>>]
    /\ monthlyData = <<>>
    /\ dailyData = <<>>
    /\ loading = TRUE
    /\ error = NULL
    /\ dateRange = InitialRange
    /\ selectedYear = NoYear
    /\ selectedMonth = NoMonth
    /\ availableYears = <<>>
    /\ availableMonths = <<>>
    /\ sortConfig = [key |-> "from_date", direction |-> "desc"]
    /\ currentPage = 1
    /\ rowsPerPage = 8
    /\ crashed = FALSE
    /\ chosen = [start |-> DayNum(2025, 4, 1), end |-> DayNum(2025, 4, 31)]
    /\ charts = [daily |-> <<>>, monthly |-> <<>>]

InitHourly ==
    /\ date = NoDate
    /\ hourlyData = <<>>
    /\ hLoading = TRUE
    /\ hError = NULL
    /\ inflight = {}
    /\ issued = 0

InitFn ==
    /\ arg = <<>>
    /\ res = <<>>

----------------------------------------------------------------------------
(* The startup fetch: fetchData awaits Promise.all of the two requests.    *)

\* a faulty variant, for comparison: the continuation runs as soon as one request is fulfilled
PromiseAnyFulfilled(mf, df) == mf.status = "ok" \/ df.status = "ok"

\* Promise.all is fulfilled once both requests are
PromiseAllFulfilled(mf, df) == mf.status = "ok" /\ df.status = "ok"

\* the render that follows a state change throws: a record without from_date
\* reaches parseApiDate, or an invalid dateRange reaches toISOString.  React
\* runs the whole component body before its loading and error returns; Angular
\* reads its getters only inside *ngIf="!loading && !error".
RenderThrows ==
    /\ variant \in React
    /\ \/ HasMissingDate(monthlyData)
       \/ HasMissingDate(dailyData)
       \/ dateRange.start = InvalidDate
       \/ dateRange.end = InvalidDate

\* the range of a month entry, as the startup default builds it
MonthRange(sel) ==
    [start |-> NewLocalDate(sel.year, sel.month, 1, 0),
     end |-> NewLocalDate(sel.year, sel.month + 1, 0, 0)]

\* the calendar days a month entry names
MonthDays(sel) ==
    IF sel.year = NaN THEN [start |-> NaN, end |-> NaN]
    ELSE [start |-> DayNum(sel.year, sel.month, 1),
          end |-> DayNum(sel.year, sel.month + 1, 0)]

\* months.find(m => m.month === currentMonth && m.year === currentYear) || months[0]
DefaultMonth(months, now) ==
    IF \E i \in 1..Len(months) : months[i].value = now
    THEN MonthEntry(now[1], now[2])
    ELSE months[1]

\* a faulty variant, for comparison: the body of fetchData after the await
\* without the catch, so that a throw while processing leaves loading set
ContinuationNoCatch(m, d, now) ==
    /\ monthlyData' = m
    /\ dailyData' = d
    /\ pc' = "done"
    /\ IF HasMissingDate(m) \/ HasMissingDate(d)
       THEN UNCHANGED <<availableYears, selectedYear, availableMonths,
                        selectedMonth, dateRange, chosen, charts, error,
                        loading, crashed>>
       ELSE \E years \in YearsOutcomes(m), months \in MonthsOutcomes(d) :
            /\ availableYears' = years
            /\ selectedYear' = IF Len(years) > 0 THEN years[1] ELSE selectedYear
            /\ availableMonths' = months
            /\ IF Len(months) > 0
               THEN /\ selectedMonth' = DefaultMonth(months, now)
                    /\ dateRange' = MonthRange(DefaultMonth(months, now))
                    /\ chosen' = MonthDays(DefaultMonth(months, now))
               ELSE UNCHANGED <<selectedMonth, dateRange, chosen>>
            /\ charts' =
                 IF variant = "angular"
                 THEN updateCharts(m,
                          IF Len(years) > 0 THEN years[1] ELSE selectedYear,
                          d,
                          IF Len(months) > 0
                          THEN MonthRange(DefaultMonth(months, now))
                          ELSE dateRange)
                 ELSE charts
            /\ error' = error
            /\ loading' = FALSE
            /\ crashed' = RenderThrows'

\* the body of fetchData after the await, with its catch; now: the year and
\* month new Date() reads
Continuation(m, d, now) ==
    /\ monthlyData' = m
    /\ dailyData' = d
    /\ IF HasMissingDate(m)
       THEN /\ error' = ErrType
            /\ UNCHANGED <<availableYears, selectedYear, availableMonths,
                           selectedMonth, dateRange, chosen, charts>>
       ELSE \E years \in YearsOutcomes(m) :
            /\ availableYears' = years
            /\ selectedYear' = IF Len(years) > 0 THEN years[1] ELSE selectedYear
            /\ IF HasMissingDate(d)
               THEN /\ error' = ErrType
                    /\ UNCHANGED <<availableMonths, selectedMonth, dateRange,
                                   chosen, charts>>
               ELSE \E months \in MonthsOutcomes(d) :
                    /\ availableMonths' = months
                    /\ IF Len(months) > 0
                       THEN /\ selectedMonth' = DefaultMonth(months, now)
                            /\ dateRange' = MonthRange(DefaultMonth(months, now))
                            /\ chosen' = MonthDays(DefaultMonth(months, now))
                       ELSE UNCHANGED <<selectedMonth, dateRange, chosen>>
                    /\ error' = error
                    /\ charts' =
                         IF variant = "angular"
                         THEN updateCharts(m,
                                  IF Len(years) > 0 THEN years[1] ELSE selectedYear,
                                  d,
                                  IF Len(months) > 0
                                  THEN MonthRange(DefaultMonth(months, now))
                                  ELSE dateRange)
                         ELSE charts
    /\ loading' = FALSE
    /\ pc' = "done"
    /\ crashed' = RenderThrows'

\* a faulty variant, for comparison: the catch leaves loading set
RejectedKeepLoading(msg) ==
    /\ error' = msg
    /\ pc' = "done"
    /\ UNCHANGED <<monthlyData, dailyData, availableYears, selectedYear,
                   availableMonths, selectedMonth, dateRange, chosen, crashed,
                   loading, charts>>

\* the catch of fetchData when Promise.all rejects
Rejected(msg) ==
    /\ error' = msg
    /\ loading' = FALSE
    /\ pc' = "done"
    /\ UNCHANGED <<monthlyData, dailyData, availableYears, selectedYear,
                   availableMonths, selectedMonth, dateRange, chosen, crashed,
                   charts>>

Ignored ==
    UNCHANGED <<monthlyData, dailyData, availableYears, selectedYear,
                availableMonths, selectedMonth, dateRange, chosen, crashed,
                error, loading, pc, charts>>

tableVars == <<sortConfig, currentPage, rowsPerPage>>

MonthlyResolves(payloads) ==
    /\ monthlyFetch.status = "pending"
    /\ UNCHANGED <<variant, tz, dailyFetch, tableVars, hourlyVars, fnVars>>
    /\ \E m \in payloads, now \in NowChoices :
        /\ monthlyFetch' = [status |-> "ok", data |-> m]
        /\ IF pc = "await" /\ PromiseAllFulfilled(monthlyFetch', dailyFetch)
           THEN /\ Continuation(m, dailyFetch.data, now)
                /\ lastOp' = Op("monthlyResolves", [now |-> now])
           ELSE /\ Ignored
                /\ lastOp' = Op("monthlyResolves", [now |-> <<>>])

DailyResolves(payloads) ==
    /\ dailyFetch.status = "pending"
    /\ UNCHANGED <<variant, tz, monthlyFetch, tableVars, hourlyVars, fnVars>>
    /\ \E d \in payloads, now \in NowChoices :
        /\ dailyFetch' = [status |-> "ok", data |-> d]
        /\ IF pc = "await" /\ PromiseAllFulfilled(monthlyFetch, dailyFetch')
           THEN /\ Continuation(monthlyFetch.data, d, now)
                /\ lastOp' = Op("dailyResolves", [now |-> now])
           ELSE /\ Ignored
                /\ lastOp' = Op("dailyResolves", [now |-> <<>>])

MonthlyFails ==
    /\ monthlyFetch.status = "pending"
    /\ monthlyFetch' = [status |-> "failed", data |-> <<>>]
    /\ IF pc = "await" THEN Rejected(ErrMonthly) ELSE Ignored
    /\ lastOp' = Op("monthlyFails", None)
    /\ UNCHANGED <<variant, tz, dailyFetch, tableVars, hourlyVars, fnVars>>

DailyFails ==
    /\ dailyFetch.status = "pending"
    /\ dailyFetch' = [status |-> "failed", data |-> <<>>]
    /\ IF pc = "await" THEN Rejected(ErrDaily) ELSE Ignored
    /\ lastOp' = Op("dailyFails", None)
    /\ UNCHANGED <<variant, tz, monthlyFetch, tableVars, hourlyVars, fnVars>>

----------------------------------------------------------------------------
(* The table: sort, page size, page navigation, year filter.  The controls *)
(* exist only once the dashboard is rendered.                              *)

Interactive == ~loading /\ error = NULL /\ ~crashed

SortKeys == {"from_date", "total_consumption", "total_charges"}
RowsPerPageOptions == {5, 8, 12}

Flip(dir) == IF dir = "asc" THEN "desc" ELSE "asc"

\* a faulty variant, for comparison: every request sorts ascending
NextSortAscending(cfg, key) == [key |-> key, direction |-> "asc"]

\* a faulty variant, for comparison: the direction flips whatever the key
NextSortFlipAny(cfg, key) == [key |-> key, direction |-> Flip(cfg.direction)]

\* the sortConfig requestSort(key) sets
NextSort(cfg, key) ==
    [key |-> key,
     direction |-> IF cfg.key = key /\ cfg.direction = "asc" THEN "desc" ELSE "asc"]

tableFrame ==
    UNCHANGED <<variant, tz, pc, monthlyFetch, dailyFetch, monthlyData, dailyData,
                loading, error, dateRange, selectedMonth, availableYears,
                availableMonths, crashed, chosen, hourlyVars, fnVars>>

\* a faulty variant, for comparison: the monthly collection itself is sorted
requestSortInPlace(key) ==
    /\ Interactive /\ variant \in HasTable
    /\ sortConfig' = NextSort(sortConfig, key)
    /\ currentPage' = 1
    /\ monthlyData' = StableSort(monthlyData, NextSort(sortConfig, key))
    /\ lastOp' = Op("requestSort", [key |-> key, was |-> sortConfig])
    /\ UNCHANGED <<rowsPerPage, selectedYear, charts>>
    /\ UNCHANGED <<variant, tz, pc, monthlyFetch, dailyFetch, dailyData,
                   loading, error, dateRange, selectedMonth, availableYears,
                   availableMonths, crashed, chosen, hourlyVars, fnVars>>

requestSort(key) ==
    /\ Interactive /\ variant \in HasTable
    /\ sortConfig' = NextSort(sortConfig, key)
    /\ currentPage' = 1
    /\ lastOp' = Op("requestSort", [key |-> key, was |-> sortConfig])
    /\ UNCHANGED <<rowsPerPage, selectedYear, charts>>
    /\ tableFrame

sortByConsumption ==
    /\ Interactive /\ variant \in HasTable
    /\ sortConfig' = [key |-> "total_consumption", direction |-> "desc"]
    /\ currentPage' = 1
    /\ lastOp' = Op("sortByConsumption", None)
    /\ UNCHANGED <<rowsPerPage, selectedYear, charts>>
    /\ tableFrame

\* a faulty variant, for comparison: the page is left where it was
setRowsPerPageKeepPage(rows) ==
    /\ Interactive /\ variant \in HasTable
    /\ rowsPerPage' = rows
    /\ lastOp' = Op("setRowsPerPage", [rows |-> rows, from |-> currentPage])
    /\ UNCHANGED <<currentPage, sortConfig, selectedYear, charts>>
    /\ tableFrame

setRowsPerPage(rows) ==
    /\ Interactive /\ variant \in HasTable
    /\ rowsPerPage' = rows
    /\ currentPage' = 1
    /\ lastOp' = Op("setRowsPerPage", [rows |-> rows, from |-> currentPage])
    /\ UNCHANGED <<sortConfig, selectedYear, charts>>
    /\ tableFrame

Clamp(p, lo, hi) == Max(lo, Min(hi, p))

\* the page numbers a caller of setPage may pass
PageRequests == 0..(Ceil(MaxMonthly, 5) + 1)

GoTo(kind, requested, page) ==
    /\ currentPage' = page
    /\ lastOp' = Op("page", [kind |-> kind, to |-> requested])
    /\ UNCHANGED <<sortConfig, rowsPerPage, selectedYear, charts>>
    /\ tableFrame

\* Angular: setPage(page)
setPage(page) ==
    /\ Interactive /\ variant = "angular"
    /\ GoTo("setPage", page, Max(1, Min(totalPages, page)))

\* React: the First, Prev, Next and Last buttons
FirstPage ==
    /\ Interactive /\ variant = "apex"
    /\ currentPage # 1
    /\ GoTo("first", 1, 1)

PrevPage ==
    /\ Interactive /\ variant = "apex"
    /\ currentPage # 1
    /\ GoTo("prev", currentPage - 1, Max(1, currentPage - 1))

NextPage ==
    /\ Interactive /\ variant = "apex"
    /\ currentPage # totalPages
    /\ GoTo("next", currentPage + 1, Min(totalPages, currentPage + 1))

LastPage ==
    /\ Interactive /\ variant = "apex"
    /\ currentPage # totalPages
    /\ GoTo("last", totalPages, totalPages)

\* the years the selector offers, and "" (All Years)
YearOptions == {availableYears[i] : i \in 1..Len(availableYears)} \cup {NoYear}

\* a faulty variant, for comparison: the charts are not updated
onYearChangeStale(year) ==
    /\ Interactive
    /\ selectedYear' = year
    /\ lastOp' = Op("yearChange", [year |-> year, cards |-> summaryCards])
    /\ UNCHANGED <<sortConfig, currentPage, rowsPerPage, charts>>
    /\ tableFrame

\* setSelectedYear(value === '' ? null : parseInt(value)); Angular then
\* calls updateCharts()
onYearChange(year) ==
    /\ Interactive
    /\ selectedYear' = year
    /\ lastOp' = Op("yearChange", [year |-> year, cards |-> summaryCards])
    /\ UNCHANGED <<sortConfig, currentPage, rowsPerPage>>
    /\ tableFrame
    /\ charts' = IF variant = "angular"
                 THEN updateCharts(monthlyData, year, dailyData, dateRange)
                 ELSE charts

----------------------------------------------------------------------------
(* The dashboard from construction: startup fetch, then the table.         *)

Variants == {"chartjs", "apex", "angular"}

MonthlyPayloads ==
    {MonthlyGen(n) : n \in {0, 1, MaxMonthly}}
        \cup {WithDate(MonthlyGen(3), 2, Missing), WithDate(MonthlyGen(3), 2, Garbage)}

DailyPayloads == {DailyGen(2), WithDate(DailyGen(3), 2, Missing)}

Init ==
    /\ InitDashboard(Variants, {-8})
    /\ InitHourly
    /\ InitFn
    /\ lastOp = Op("init", None)

Next ==
    \/ MonthlyResolves(MonthlyPayloads)
    \/ DailyResolves(DailyPayloads)
    \/ MonthlyFails
    \/ DailyFails
    \/ \E key \in SortKeys : requestSort(key)
    \/ sortByConsumption
    \/ \E rows \in RowsPerPageOptions : setRowsPerPage(rows)
    \/ \E page \in PageRequests : setPage(page)
    \/ FirstPage
    \/ PrevPage
    \/ NextPage
    \/ LastPage
    \/ \E year \in YearOptions : onYearChange(year)

Spec == Init /\ [][Next]_vars

\* Each of the two startup requests is answered in the end, by a response
\* or by a failure: an HTTP request outstanding is settled by the network
\* layer, and its promise callback then runs.
MonthlySettles == MonthlyFails \/ MonthlyResolves(MonthlyPayloads)
DailySettles == DailyFails \/ DailyResolves(DailyPayloads)

SpecLive == Spec /\ WF_vars(MonthlySettles) /\ WF_vars(DailySettles)

----------------------------------------------------------------------------
(* The daily view: the date-range filter, month change and range edits.    *)

dailyFrame ==
    UNCHANGED <<variant, tz, pc, monthlyFetch, dailyFetch, monthlyData, dailyData,
                loading, error, selectedYear, availableYears, availableMonths,
                tableVars, hourlyVars, fnVars>>

MonthValues == {availableMonths[i].value : i \in 1..Len(availableMonths)}

\* a faulty variant, for comparison: the start of the range is left as it was
MonthChangeRangeKeepStart(sel) ==
    [start |-> dateRange.start,
     end |-> NewLocalDate(sel.year, sel.month + 1, 0,
                          IF variant = "angular" THEN TicksPerDay - 1 ELSE 0)]

\* the dateRange handleMonthChange sets: the React variants end it at the
\* midnight that starts the last day, Angular at that day's last millisecond
MonthChangeRangeOf(v, sel) ==
    [start |-> NewLocalDate(sel.year, sel.month, 1, 0),
     end |-> NewLocalDate(sel.year, sel.month + 1, 0,
                          IF v = "angular" THEN TicksPerDay - 1 ELSE 0)]

MonthChangeRange(sel) == MonthChangeRangeOf(variant, sel)

\* availableMonths.find(m => m.value === monthValue) is never undefined for a
\* value the selector offers
handleMonthChange(monthValue) ==
    /\ Interactive
    /\ dailyFrame
    /\ \E i \in 1..Len(availableMonths) :
        /\ availableMonths[i].value = monthValue
        /\ selectedMonth' = availableMonths[i]
        /\ dateRange' = MonthChangeRange(availableMonths[i])
        /\ chosen' = MonthDays(availableMonths[i])
        /\ charts' = IF variant = "angular"
                     THEN updateCharts(monthlyData, selectedYear, dailyData,
                                       MonthChangeRange(availableMonths[i]))
                     ELSE charts
    /\ lastOp' = Op("monthChange", [value |-> monthValue, was |-> dateRange])
    /\ crashed' = RenderThrows'

\* the start input: dateRange.start = new Date(value), value a YYYY-MM-DD string
onStartDateChange(day) ==
    /\ Interactive
    /\ dailyFrame
    /\ dateRange' = [dateRange EXCEPT !.start = UtcMidnight(day)]
    /\ chosen' = [chosen EXCEPT !.start = day]
    /\ lastOp' = Op("rangeEdit", [day |-> day])
    /\ crashed' = RenderThrows'
    /\ UNCHANGED selectedMonth
    /\ charts' = IF variant = "angular"
                 THEN updateCharts(monthlyData, selectedYear, dailyData,
                                   [dateRange EXCEPT !.start = UtcMidnight(day)])
                 ELSE charts

\* the end input
onEndDateChange(day) ==
    /\ Interactive
    /\ dailyFrame
    /\ dateRange' = [dateRange EXCEPT !.end = UtcMidnight(day)]
    /\ chosen' = [chosen EXCEPT !.end = day]
    /\ lastOp' = Op("rangeEdit", [day |-> day])
    /\ crashed' = RenderThrows'
    /\ UNCHANGED selectedMonth
    /\ charts' = IF variant = "angular"
                 THEN updateCharts(monthlyData, selectedYear, dailyData,
                                   [dateRange EXCEPT !.end = UtcMidnight(day)])
                 ELSE charts

\* the days a user picks in the date inputs
EditDays == {DayNum(2025, 4, 10), DayNum(2025, 4, 12)}

DailyViewPayloads == {DailyGen(MaxDaily), Reverse(DailyGen(MaxDaily)), <<>>}

InitDaily ==
    /\ InitDashboard(Variants, {-12, -8, 0, 14})
    /\ InitHourly
    /\ InitFn
    /\ lastOp = Op("init", None)

NextDaily ==
    \/ MonthlyResolves({MonthlyGen(1)})
    \/ DailyResolves(DailyViewPayloads)
    \/ MonthlyFails
    \/ DailyFails
    \/ \E value \in MonthValues : handleMonthChange(value)
    \/ \E day \in EditDays : onStartDateChange(day)
    \/ \E day \in EditDays : onEndDateChange(day)

SpecDaily == InitDaily /\ [][NextDaily]_vars

----------------------------------------------------------------------------
(* The three front ends side by side on the daily view: each receives the  *)
(* same daily records and the same month changes and range edits, and      *)
(* keeps its own dateRange.  res.range[v] is the dateRange of front end v, *)
(* arg the records and the months the selector offers.                     *)

\* the startup fetch has delivered d: every front end sets the default
\* month's range, new Date(year, month, 1) to new Date(year, month + 1, 0)
EquivLoaded(d) ==
    /\ ~res.loaded
    /\ \E months \in MonthsOutcomes(d), now \in NowChoices :
        /\ arg' = [months |-> months, daily |-> d]
        /\ res' = [range |-> [v \in Variants |-> MonthRange(DefaultMonth(months, now))],
                   loaded |-> TRUE]
    /\ lastOp' = Op("loaded", None)
    /\ UNCHANGED <<dashVars, hourlyVars>>

\* the month selector changes to the i-th month offered
EquivMonthChange(i) ==
    /\ res.loaded
    /\ i \in 1..Len(arg.months)
    /\ res' = [res EXCEPT !.range =
                 [v \in Variants |-> MonthChangeRangeOf(v, arg.months[i])]]
    /\ lastOp' = Op("monthChange", [value |-> arg.months[i].value, was |-> None])
    /\ UNCHANGED <<dashVars, hourlyVars, arg>>

\* the start input is set to day
EquivStartEdit(day) ==
    /\ res.loaded
    /\ res' = [res EXCEPT !.range =
                 [v \in Variants |-> [res.range[v] EXCEPT !.start = UtcMidnight(day)]]]
    /\ lastOp' = Op("rangeEdit", [day |-> day])
    /\ UNCHANGED <<dashVars, hourlyVars, arg>>

\* the end input is set to day
EquivEndEdit(day) ==
    /\ res.loaded
    /\ res' = [res EXCEPT !.range =
                 [v \in Variants |-> [res.range[v] EXCEPT !.end = UtcMidnight(day)]]]
    /\ lastOp' = Op("rangeEdit", [day |-> day])
    /\ UNCHANGED <<dashVars, hourlyVars, arg>>

InitEquiv ==
    /\ InitDashboard({"chartjs"}, {-12, -8, 0, 14})
    /\ InitHourly
    /\ arg = <<>>
    /\ res = [range |-> [v \in Variants |-> InitialRange], loaded |-> FALSE]
    /\ lastOp = Op("init", None)

NextEquiv ==
    \/ \E d \in {DailyGen(MaxDaily), Reverse(DailyGen(MaxDaily))} : EquivLoaded(d)
    \/ \E i \in 1..MaxDaily : EquivMonthChange(i)
    \/ \E day \in EditDays : EquivStartEdit(day)
    \/ \E day \in EditDays : EquivEndEdit(day)

SpecEquiv == InitEquiv /\ [][NextEquiv]_vars

----------------------------------------------------------------------------
(* The whole dashboard: the table, the year filter, the daily view and the *)
(* CSV export, on one monthly and one daily response.                      *)

\* the Export CSV button: the rows are built from sortedMonthly and handed to
\* the browser as a download; no field of the component is written
exportCsv ==
    /\ Interactive /\ variant \in HasTable
    /\ lastOp' = Op("exportCsv", None)
    /\ UNCHANGED <<dashVars, hourlyVars, fnVars>>

InitWhole ==
    /\ InitDashboard(Variants, {-8})
    /\ InitHourly
    /\ InitFn
    /\ lastOp = Op("init", None)

NextWhole ==
    \/ MonthlyResolves({MonthlyGen(MaxLen + 1)})
    \/ DailyResolves({DailyGen(2)})
    \/ \E key \in SortKeys : requestSort(key)
    \/ sortByConsumption
    \/ \E rows \in RowsPerPageOptions : setRowsPerPage(rows)
    \/ \E page \in PageRequests : setPage(page)
    \/ FirstPage
    \/ PrevPage
    \/ NextPage
    \/ LastPage
    \/ \E year \in YearOptions : onYearChange(year)
    \/ \E value \in MonthValues : handleMonthChange(value)
    \/ onStartDateChange(DayNum(2025, 4, 10))
    \/ onEndDateChange(DayNum(2025, 4, 12))
    \/ exportCsv

SpecWhole == InitWhole /\ [][NextWhole]_vars

----------------------------------------------------------------------------
(* The hourly detail view.  The route parameter names the day; every       *)
(* change of it runs fetchHourlyData, whose continuation writes the fields *)
(* whatever the day is by then.                                            *)

\* the days a daily data point leads to
HourlyDays == {DayNum(2025, 4, 10), DayNum(2025, 4, 11), DayNum(2025, 4, 12)}

\* the 15-minute records the data source returns for a day
HourlyGen(day) ==
    <<Rec(IsoDate(day, "T00:00:00.000Z"), 1, 1), Rec(IsoDate(day, "T00:15:00.000Z"), 2, 1)>>

ErrHourly == "hourly request failed"

dashFrame == UNCHANGED <<dashVars, fnVars>>

\* the route parameter changes to day: the effect runs fetchHourlyData up to
\* its await
Navigate(day) ==
    /\ day # date
    /\ issued < MaxIssued
    /\ date' = day
    /\ hLoading' = TRUE
    /\ issued' = issued + 1
    /\ inflight' = inflight \cup {[id |-> issued + 1, day |-> day]}
    /\ lastOp' = Op("navigate", [day |-> day])
    /\ UNCHANGED <<hourlyData, hError>>
    /\ dashFrame

\* what the view renders: if (loading) return ...; if (error) return ...;
\* and the chart and summary of hourlyData otherwise
hourlyView ==
    IF hLoading THEN "loading"
    ELSE IF hError # NULL THEN "error"
    ELSE "detail"

\* a continuation that would reset the error on success
HourlyResolvesClearing(req) ==
    /\ req \in inflight
    /\ inflight' = inflight \ {req}
    /\ hourlyData' = HourlyGen(req.day)
    /\ hLoading' = FALSE
    /\ hError' = NULL
    /\ lastOp' = Op("hourlyResolves", [req |-> req])
    /\ UNCHANGED <<date, issued>>
    /\ dashFrame

\* the request is fulfilled: setHourlyData(response.data.data || []); setLoading(false)
HourlyResolves(req) ==
    /\ req \in inflight
    /\ inflight' = inflight \ {req}
    /\ hourlyData' = HourlyGen(req.day)
    /\ hLoading' = FALSE
    /\ lastOp' = Op("hourlyResolves", [req |-> req])
    /\ UNCHANGED <<date, hError, issued>>
    /\ dashFrame

\* the request is rejected: setError(err.message); setLoading(false)
HourlyFails(req) ==
    /\ req \in inflight
    /\ inflight' = inflight \ {req}
    /\ hError' = ErrHourly
    /\ hLoading' = FALSE
    /\ lastOp' = Op("hourlyFails", [req |-> req])
    /\ UNCHANGED <<date, hourlyData, issued>>
    /\ dashFrame

InitHourlyView ==
    /\ InitDashboard({"chartjs"}, {0})
    /\ InitHourly
    /\ InitFn
    /\ lastOp = Op("init", None)

NextHourly ==
    \/ \E day \in HourlyDays : Navigate(day)
    \/ \E req \in inflight : HourlyResolves(req)
    \/ \E req \in inflight : HourlyFails(req)

SpecHourly == InitHourlyView /\ [][NextHourly]_vars

----------------------------------------------------------------------------
(* Pagination as a function: the pages of a sorted sequence, taken one     *)
(* after the other.                                                        *)

SortConfigs == [key : SortKeys, direction : {"asc", "desc"}]

InitPaginate ==
    /\ InitDashboard({"apex"}, {0})
    /\ InitHourly
    /\ \E n \in 0..MaxLen, cfg \in SortConfigs,
          size \in (1..MaxPageSize) \cup RowsPerPageOptions :
        arg = [seq |-> StableSort(MonthlyGen(n), cfg), size |-> size]
    /\ res = [page |-> 1, acc |-> <<>>]
    /\ lastOp = Op("init", None)

\* the next page is taken and appended
TakePage ==
    /\ res.page <= TotalPagesOf(Len(arg.seq), arg.size)
    /\ res' = [page |-> res.page + 1,
               acc |-> res.acc \o PageSlice(arg.seq, res.page, arg.size)]
    /\ lastOp' = Op("takePage", [page |-> res.page])
    /\ UNCHANGED <<dashVars, hourlyVars, arg>>

NextPaginate == TakePage

SpecPaginate == InitPaginate /\ [][NextPaginate]_vars

----------------------------------------------------------------------------
(* Totals, averages and statistics as functions of a drawn collection *)

\* the totals of a collection as functions of it: the collection is drawn,
\* then the hourly view's or the dashboard's totals are computed from it

\* what a numeric field may hold on the wire
ConsumptionValues == {Num(0), Num(40), NumAbsent, NumEmpty, NumText}
ChargesValues == {Num(6), NumText}

TotalsRecords ==
    {[from_date |-> IsoDate(DayNum(2025, 4, 10), "T00:00:00.000Z"),
      total_consumption |-> c, total_charges |-> g] :
        c \in ConsumptionValues, g \in ChargesValues}

InitTotals ==
    /\ InitDashboard({"chartjs"}, {0})
    /\ InitHourly
    /\ \E n \in 0..MaxRecords : \E s \in [1..n -> TotalsRecords] :
            arg = [records |-> s]
    /\ res = [fn |-> "none"]
    /\ lastOp = Op("init", None)

HourlyTotals ==
    /\ res.fn = "none"
    /\ res' = [fn |-> "hourlyTotals",
               kwh |-> totalHourlyKwh(arg.records),
               charges |-> totalHourlyCharges(arg.records),
               average |-> averageHourlyUsage(arg.records)]
    /\ lastOp' = Op("hourlyTotals", None)
    /\ UNCHANGED <<dashVars, hourlyVars, arg>>

YtdTotals ==
    /\ res.fn = "none"
    /\ res' = [fn |-> "ytdTotals",
               kwh |-> SumOf(arg.records, "total_consumption"),
               charges |-> SumOf(arg.records, "total_charges"),
               cost |-> avgCostPerKwhOf(SumOf(arg.records, "total_consumption"),
                                        SumOf(arg.records, "total_charges"))]
    /\ lastOp' = Op("ytdTotals", None)
    /\ UNCHANGED <<dashVars, hourlyVars, arg>>

NextTotals == HourlyTotals \/ YtdTotals

SpecTotals == InitTotals /\ [][NextTotals]_vars

\* the records a collection under statistics is drawn from: three months,
\* each with its own charges, and a consumption that may be zero, negative or
\* malformed
StatsRecords ==
    {[from_date |-> IsoDate(DayNum(2025, mg[1], 1), "T00:00:00.000Z"),
      total_consumption |-> c, total_charges |-> Num(mg[2])] :
        mg \in {<<0, 6>>, <<1, 0>>, <<2, 9>>},
        c \in {Num(100), Num(80), Num(0), Num(-50), NumText}}

InitStats ==
    /\ InitDashboard({"angular"}, {0})
    /\ InitHourly
    /\ \E n \in 0..MaxRecords : \E s \in [1..n -> StatsRecords] :
            arg = [records |-> s]
    /\ res = [fn |-> "none"]
    /\ lastOp = Op("init", None)

\* the month-over-month card
MonthlyChange ==
    /\ res.fn = "none"
    /\ res' = [fn |-> "monthlyChange", change |-> monthlyChangeOf(arg.records)]
    /\ lastOp' = Op("monthlyChange", None)
    /\ UNCHANGED <<dashVars, hourlyVars, arg>>

\* row i of the table: its cost per kWh and its trend bar
TableRow(i) ==
    /\ res.fn = "none"
    /\ i \in 1..Len(arg.records)
    /\ LET consumption == parseFloatOrZero(arg.records[i].total_consumption)
           charges == parseFloatOrZero(arg.records[i].total_charges)
       IN  res' = [fn |-> "row", consumption |-> consumption, charges |-> charges,
                   cost |-> getCostPerKwh(consumption, charges),
                   trend |-> getTrendPercentage(arg.records, consumption)]
    /\ lastOp' = Op("row", [row |-> i])
    /\ UNCHANGED <<dashVars, hourlyVars, arg>>

\* the peak card of the hourly view
PeakHour ==
    /\ res.fn = "none"
    /\ res' = [fn |-> "peak", peak |-> peakInterval(arg.records)]
    /\ lastOp' = Op("peak", None)
    /\ UNCHANGED <<dashVars, hourlyVars, arg>>

NextStats ==
    \/ MonthlyChange
    \/ \E i \in 1..MaxRecords : TableRow(i)
    \/ PeakHour

SpecStats == InitStats /\ [][NextStats]_vars

----------------------------------------------------------------------------
(* The table sort as a function of a drawn collection and sort state *)

\* records with a from_date present, unparseable or absent and a consumption
\* present or absent
SortRecords ==
    {[from_date |-> d, total_consumption |-> c, total_charges |-> Num(5)] :
        d \in {IsoDate(DayNum(2025, 0, 1), "T00:00:00.000Z"),
               IsoDate(DayNum(2025, 1, 1), "T00:00:00.000Z"), Garbage, Missing},
        c \in {Num(100), NumAbsent}}

InitSort ==
    /\ InitDashboard(HasTable, {0})
    /\ InitHourly
    /\ \E n \in 0..MaxRecords : \E s \in [1..n -> SortRecords], cfg \in SortConfigs :
            arg = [records |-> s, cfg |-> cfg]
    /\ res = [fn |-> "none"]
    /\ lastOp = Op("init", None)

\* the sorted rows of the table; the Angular getter builds _dateObj with
\* parseApiDate unguarded and throws on a record without from_date
SortTable ==
    /\ res.fn = "none"
    /\ res' = IF variant = "angular" /\ HasMissingDate(arg.records)
              THEN [fn |-> "throws", sorted |-> <<>>]
              ELSE [fn |-> "sort", sorted |-> StableSort(arg.records, arg.cfg)]
    /\ lastOp' = Op("sort", None)
    /\ UNCHANGED <<dashVars, hourlyVars, arg>>

\* the rows are sorted once more, under the same key and direction
SortAgain ==
    /\ res.fn = "sort"
    /\ res' = [sorted |-> StableSort(res.sorted, arg.cfg), fn |-> "again"]
    /\ lastOp' = Op("sortAgain", [was |-> res.sorted])
    /\ UNCHANGED <<dashVars, hourlyVars, arg>>

NextSortTable ==
    \/ SortTable
    \/ SortAgain

SpecSort == InitSort /\ [][NextSortTable]_vars

----------------------------------------------------------------------------
(* The date normalizer and the daily data point's click as functions of a  *)
(* wire string and the viewer's offset from UTC.                           *)

TzOffsets == -12..14

\* a date-only string, a UTC timestamp and a timestamp with a zone suffix, for
\* a day in mid-month, a leap day, the last and the first day of a year
WireDates ==
    {IsoDate(day, rest) :
        day \in {DayNum(2025, 2, 15), DayNum(2024, 1, 29),
                 DayNum(2024, 11, 31), DayNum(2025, 0, 1)},
        rest \in {"", "T00:00:00.000Z", "T23:00:00-08:00"}}

InitDates ==
    /\ InitDashboard({"chartjs"}, TzOffsets)
    /\ InitHourly
    /\ arg \in WireDates
    /\ res = [fn |-> "none"]
    /\ lastOp = Op("init", None)

\* parseApiDate(from_date), read with getFullYear, getMonth and getDate
Normalize ==
    /\ res.fn = "none"
    /\ LET t == parseApiDate(arg)
       IN  res' = [civil |-> <<getFullYear(t), getMonth(t), getDate(t)>>,
                   fn |-> "normalize"]
    /\ lastOp' = Op("normalize", None)
    /\ UNCHANGED <<dashVars, hourlyVars, arg>>

\* the click on the data point of a record: the day of the route it
\* navigates to, parseApiDate(item.from_date).toISOString().split('T')[0]
handleDailyBarClick ==
    /\ res.fn = "none"
    /\ res' = [route |-> UtcDay(parseApiDate(arg)), fn |-> "click"]
    /\ lastOp' = Op("click", None)
    /\ UNCHANGED <<dashVars, hourlyVars, arg>>

NextDates ==
    \/ Normalize
    \/ handleDailyBarClick

SpecDates == InitDates /\ [][NextDates]_vars

----------------------------------------------------------------------------
(* Properties *)

AnyFailed == monthlyFetch.status = "failed" \/ dailyFetch.status = "failed"

\* nothing derived from fetched records has been set
Unpopulated ==
    /\ availableYears = <<>>
    /\ availableMonths = <<>>
    /\ selectedYear = NoYear
    /\ selectedMonth = NoMonth
    /\ dateRange = InitialRange

\* C1: in the hourly view, once no request is outstanding (and none failed),
\* the records shown are the ones returned for the active day, whatever the
\* order in which the responses of an earlier and the current day arrived.
C1_StaleResponseDiscarded ==
    (date # NoDate /\ inflight = {} /\ hError = NULL)
        => hourlyData = HourlyGen(date)

\* C2: while a startup request is still pending and none has failed, loading
\* is true and the derived state has its initial value.
C2_LoadingUntilBoth ==
    ((monthlyFetch.status = "pending" \/ dailyFetch.status = "pending") /\ ~AnyFailed)
        => (loading = TRUE /\ Unpopulated)

\* one request is fulfilled with records, the other still pending
C2_Witness ==
    /\ dailyFetch.status = "ok" /\ Len(dailyFetch.data) > 0
    /\ monthlyFetch.status = "pending"

C3_Step ==
    /\ AnyFailed' =>
        /\ error' \in {ErrMonthly, ErrDaily}
        /\ loading' = FALSE
        /\ monthlyData' = <<>> /\ dailyData' = <<>>
        /\ Unpopulated'
    /\ (~AnyFailed /\ monthlyFetch'.status = "failed") => error' = ErrMonthly
    /\ (~AnyFailed /\ dailyFetch'.status = "failed") => error' = ErrDaily
    /\ AnyFailed => error' = error
    /\ monthlyFetch.status # "pending" => monthlyFetch' = monthlyFetch
    /\ dailyFetch.status # "pending" => dailyFetch' = dailyFetch

\* C3: when a startup request fails the dashboard is in the error state with
\* that failure's message and loading false, and stays there: the message
\* never changes, no request is issued again, and neither the collections nor
\* the selection defaults are populated from the request that succeeded.
C3_FailureIsFinal == [][C3_Step]_vars

\* the monthly request succeeded with records, the daily one failed
C3_Witness ==
    /\ monthlyFetch.status = "ok" /\ Len(monthlyFetch.data) > 0
    /\ dailyFetch.status = "failed"
    /\ error = ErrDaily

Malformed(s) == {i \in 1..Len(s) : s[i].from_date.kind # "iso"}
WellFormed(s) == SelectSeq(s, LAMBDA r : r.from_date.kind = "iso")
Elems(s) == {s[i] : i \in 1..Len(s)}

\* C4: with both requests fulfilled and exactly one record without a usable
\* from_date, the dashboard is neither in the error state nor crashed, and the
\* years and months are those of all the other records.
C4_MalformedRecordAbsorbed ==
    (/\ pc = "done"
     /\ monthlyFetch.status = "ok" /\ dailyFetch.status = "ok"
     /\ Cardinality(Malformed(monthlyFetch.data))
            + Cardinality(Malformed(dailyFetch.data)) = 1)
        => /\ error = NULL
           /\ ~crashed
           /\ Elems(availableYears) = {YearOf(r) : r \in Elems(WellFormed(monthlyFetch.data))}
           /\ {e.value : e \in Elems(availableMonths)}
                = {MonthOf(r).value : r \in Elems(WellFormed(dailyFetch.data))}

\* C5: a sort request on the active key flips the direction and sets page 1.
C5_SameKeyFlips ==
    (lastOp.op = "requestSort" /\ lastOp.a.was.key = lastOp.a.key)
        => /\ sortConfig = [key |-> lastOp.a.key,
                            direction |-> Flip(lastOp.a.was.direction)]
           /\ currentPage = 1

\* the request was made in the initial sort state {from_date, desc}
C5_Witness ==
    /\ lastOp.op = "requestSort"
    /\ lastOp.a.key = "from_date"
    /\ lastOp.a.was = [key |-> "from_date", direction |-> "desc"]

\* C6: a sort request on another key makes it active, ascending.
C6_NewKeyAscending ==
    (lastOp.op = "requestSort" /\ lastOp.a.was.key # lastOp.a.key)
        => sortConfig = [key |-> lastOp.a.key, direction |-> "asc"]

\* another key was active, ascending
C6_Witness ==
    /\ lastOp.op = "requestSort"
    /\ lastOp.a.was.key # lastOp.a.key
    /\ lastOp.a.was.direction = "asc"

\* C7: a page-size change sets the size and goes back to page 1.
C7_RowsPerPageResetsPage ==
    lastOp.op = "setRowsPerPage"
        => /\ lastOp.a.rows \in RowsPerPageOptions
           /\ rowsPerPage = lastOp.a.rows
           /\ currentPage = 1

\* the change was made on a later page
C7_Witness ==
    /\ lastOp.op = "setRowsPerPage"
    /\ lastOp.a.from > 1

\* C8: page navigation sets the page to the requested one, clamped into
\* 1..totalPages.
C8_PageClamped ==
    lastOp.op = "page" => currentPage = Clamp(lastOp.a.to, 1, totalPages)

\* C9: totalPages is max(1, ceil(n / size)), and the pages 1..totalPages, one
\* after the other, are the sequence itself.
C9_PagesPartition ==
    LET n == Len(arg.seq)
        tp == TotalPagesOf(n, arg.size)
    IN  /\ tp >= 1
        /\ n = 0 => tp = 1
        /\ n > 0 => ((tp - 1) * arg.size < n /\ n <= tp * arg.size)
        /\ res.acc = SubSeq(arg.seq, 1, Len(res.acc))
        /\ res.page = tp + 1 => res.acc = arg.seq

\* every page was taken, the last one not full
C9_Witness ==
    /\ lastOp.op = "takePage"
    /\ res.page = TotalPagesOf(Len(arg.seq), arg.size) + 1
    /\ res.page > 3
    /\ Len(arg.seq) % arg.size # 0

\* C10: after a month change or a range edit the daily filter keeps exactly
\* the records dated from the chosen start day to the chosen end day, both
\* included.
C10_RangeInclusive ==
    (Interactive /\ lastOp.op \in {"monthChange", "rangeEdit"})
        => filteredDailyData
             = Reverse(SelectSeq(dailyData,
                   LAMBDA r : r.from_date.day \in chosen.start..chosen.end))

\* C11: whatever the order in which the data source returned the daily
\* records, the output of the date-range filter is in ascending order of date.
C11_FilterOutputAscending ==
    Interactive =>
        \A i, j \in 1..Len(filteredDailyData) :
            i < j => filteredDailyData[i].from_date.day <= filteredDailyData[j].from_date.day

\* C12: a month change to an available month M sets selectedMonth to M and
\* the date range to the first and the last day of M, whatever the range was
\* before (an earlier edit of start or end included).
C12_MonthChangeSetsRange ==
    lastOp.op = "monthChange" =>
        LET y == lastOp.a.value[1]
            m == lastOp.a.value[2]
        IN  /\ selectedMonth = MonthEntry(y, m)
            /\ \E i \in 1..Len(availableMonths) : availableMonths[i] = selectedMonth
            /\ LocalDay(dateRange.start) = DayNum(y, m, 1)
            /\ LocalDay(dateRange.end) = DayNum(y, m, DaysInMonth(y, m))

\* the month change follows an edit of both ends of the range
C12_Witness ==
    /\ lastOp.op = "monthChange"
    /\ lastOp.a.was.start = UtcMidnight(DayNum(2025, 4, 10))
    /\ lastOp.a.was.end = UtcMidnight(DayNum(2025, 4, 12))

\* C13: with a year selected the monthly year filter returns exactly the
\* records whose date falls in that year, in their original relative order;
\* with no year selected it returns the monthly collection unchanged.
C13_YearFilterExact ==
    Interactive =>
        /\ Truthy(selectedYear) =>
              filteredMonthlyData
                = SelectSeq(monthlyData,
                      LAMBDA r : /\ r.from_date.kind = "iso"
                                 /\ CivilOfDay(r.from_date.day)[1] = selectedYear)
        /\ selectedYear = NoYear => filteredMonthlyData = monthlyData

\* a year was chosen that some records fall in and others do not
C13_Witness ==
    /\ Interactive
    /\ lastOp.op = "yearChange"
    /\ selectedYear = 2024
    /\ Len(filteredMonthlyData) > 1
    /\ Len(filteredMonthlyData) < Len(monthlyData)

\* C14: for every record collection, a total_consumption or total_charges
\* that is absent, empty or malformed included, the sums and the per-record
\* average are finite numbers, an absent or malformed value counting as 0,
\* and the average of an empty collection is 0.
C14_TotalsFinite ==
    LET count(w) == IF w.kind = "num" THEN w.v ELSE 0
        total(field) ==
            LET f[i \in 0..Len(arg.records)] ==
                    IF i = 0 THEN 0 ELSE f[i - 1] + count(arg.records[i][field])
            IN  f[Len(arg.records)]
    IN  /\ res.fn \in {"hourlyTotals", "ytdTotals"} =>
            /\ res.kwh = Fin(total("total_consumption"), 1)
            /\ res.charges = Fin(total("total_charges"), 1)
        /\ res.fn = "hourlyTotals" =>
            /\ isFinite(res.average)
            /\ Len(arg.records) = 0 => res.average = Zero
        /\ res.fn = "ytdTotals" => res.cost.k = "fixed"

\* C15: over monthly records of pairwise distinct dates, in whatever order
\* they were received, monthOverMonthChange compares the record of the latest
\* date with the one before it: it is not available when there are fewer
\* than 2 records or the earlier consumption is 0 (an absent or malformed
\* consumption counting as 0), and is otherwise ((last - prev) / prev) * 100
\* rounded to one decimal.
C15_MonthOverMonthChange ==
    LET recs == arg.records
        n == Len(recs)
        day(i) == recs[i].from_date.day
        value(i) == IF recs[i].total_consumption.kind = "num"
                    THEN recs[i].total_consumption.v ELSE 0
        last == CHOOSE i \in 1..n : \A j \in 1..n : day(j) <= day(i)
        prev == CHOOSE i \in (1..n) \ {last} :
                    \A j \in (1..n) \ {last} : day(j) <= day(i)
        num == 1000 * (value(last) - value(prev))
        den == value(prev)
        tenths == (IF (num < 0) = (den < 0) THEN 1 ELSE -1)
                    * ((2 * Abs(num) + Abs(den)) \div (2 * Abs(den)))
    IN  (/\ res.fn = "monthlyChange"
         /\ \A i, j \in 1..n : i # j => day(i) # day(j))
            => IF n < 2 \/ value(prev) = 0
               THEN res.change.k = "null"
               ELSE res.change = [k |-> "fixed", digits |-> 1, units |-> tenths]

\* C16: the cost per unit of a row is 0 whenever its consumption is not
\* above 0, whatever its charges, and charges / consumption when the
\* consumption is above 0; nothing is ever divided by zero.
C16_CostPerUnitGuarded ==
    (res.fn = "row" /\ isFinite(res.consumption) /\ isFinite(res.charges)) =>
        /\ isFinite(res.cost)
        /\ res.consumption.n <= 0 => res.cost = Zero
        /\ res.consumption.n > 0 => NumMul(res.cost, res.consumption) = res.charges

\* a row with consumption 0 and charges above 0
C16_Witness ==
    /\ res.fn = "row"
    /\ res.consumption = Zero
    /\ res.charges = Fin(9, 1)
    /\ res.cost = Zero

\* C17: for every monthly collection and every consumption passed in, the
\* trend percentage is a number from 0 to 100.
C17_TrendPercentageInRange ==
    res.fn = "row" =>
        /\ isFinite(res.trend)
        /\ ~NumGt(Zero, res.trend)
        /\ ~NumGt(res.trend, Fin(100, 1))

\* C18: over a non-empty collection the peak interval is the record of
\* maximum consumption (an absent or malformed consumption counting as 0),
\* the first of them in input order when several share the maximum; over an
\* empty collection it is not available.
C18_PeakIsFirstMaximum ==
    LET recs == arg.records
        value(i) == IF recs[i].total_consumption.kind = "num"
                    THEN recs[i].total_consumption.v ELSE 0
    IN  res.fn = "peak" =>
            IF Len(recs) = 0 THEN res.peak.k = "N/A"
            ELSE /\ res.peak.k = "record"
                 /\ res.peak.index \in 1..Len(recs)
                 /\ \A j \in 1..Len(recs) : value(j) <= value(res.peak.index)
                 /\ \A j \in 1..(res.peak.index - 1) : value(j) < value(res.peak.index)

\* C19: a year change, to a year or to "All", leaves the summary scalars as
\* they were before it: the highest month, the year-to-date consumption and
\* charges, the average cost per unit and the month-over-month change.
C19_YearChangeKeepsSummary ==
    lastOp.op = "yearChange" => summaryCards = lastOp.a.cards

\* the year changed to 2024 while the highest month is one of 2025
C19_Witness ==
    /\ lastOp.op = "yearChange"
    /\ selectedYear = 2024
    /\ Len(filteredMonthlyData) < Len(monthlyData)
    /\ YearOf(highestMonthData) = 2025
    /\ isFinite(ytdConsumption) /\ NumGt(ytdConsumption, Zero)

C21_SortStableIdempotent ==
    LET key == arg.cfg.key
        val(r) == IF key = "from_date"
                  THEN (IF r.from_date.kind = "iso" THEN r.from_date.day
                        ELSE IF r.from_date.kind = "missing" THEN -2 ELSE NaN)
                  ELSE (IF r[key].kind = "num" THEN r[key].v
                        ELSE IF r[key].kind \in {"absent", "empty"} THEN 0 ELSE NaN)
        same(s, v) == SelectSeq(s, LAMBDA r : val(r) = v)
    IN  /\ res.fn = "sort" =>
            \A i \in 1..Len(arg.records) :
                val(arg.records[i]) # NaN =>
                    same(res.sorted, val(arg.records[i]))
                        = same(arg.records, val(arg.records[i]))
        /\ res.fn = "again" => res.sorted = lastOp.a.was

\* three different records of two consumptions, the larger one first, sorted
\* by consumption ascending and sorted again
C21_Witness ==
    /\ res.fn = "again"
    /\ arg.cfg = [key |-> "total_consumption", direction |-> "asc"]
    /\ Len(arg.records) = 3
    /\ arg.records[1].total_consumption = Num(100)
    /\ arg.records[2].total_consumption = NumAbsent
    /\ arg.records[3].total_consumption = Num(100)
    /\ arg.records[1].from_date # arg.records[3].from_date
    /\ res.sorted = <<arg.records[2], arg.records[1], arg.records[3]>>

\* C22: for every wire string of date portion D, date-only or with a time
\* and zone suffix, and every viewer offset, the normalized Date reads as the
\* calendar date D: year, month and day.
C22_NormalizedDateIsDatePortion ==
    res.fn = "normalize" => res.civil = CivilOfDay(arg.day)

\* a timestamp of 23:00 at UTC-8, read by a viewer at UTC+14
C22_Witness ==
    /\ res.fn = "normalize"
    /\ arg = IsoDate(DayNum(2025, 2, 15), "T23:00:00-08:00")
    /\ tz = 14
    /\ res.civil = <<2025, 2, 15>>

\* C23: the click on the data point of a record navigates to the hourly view
\* of the day its from_date names, for every viewer offset from UTC-12 to
\* UTC+14.
C23_ClickNavigatesToRecordDay ==
    res.fn = "click" => res.route = arg.day

\* C24: once both startup requests are fulfilled, the selected year is the
\* most recent year of the monthly records; the selected month is the current
\* calendar month if a daily record falls in it and the most recent month of
\* the daily records otherwise, and the date range runs from the first to the
\* last day of that month.
C24_StartupDefaults ==
    LET m == monthlyFetch.data
        d == dailyFetch.data
        now == lastOp.a.now
        year(r) == IF r.from_date.kind = "iso" THEN CivilOfDay(r.from_date.day)[1] ELSE 0
        month(r) == IF r.from_date.kind = "iso"
                    THEN 12 * CivilOfDay(r.from_date.day)[1] + CivilOfDay(r.from_date.day)[2]
                    ELSE 0
        months == {month(d[i]) : i \in 1..Len(d)}
        latest == CHOOSE k \in months : \A j \in months : j <= k
        pick == IF 12 * now[1] + now[2] \in months THEN 12 * now[1] + now[2] ELSE latest
    IN  (/\ lastOp.op \in {"monthlyResolves", "dailyResolves"}
         /\ monthlyFetch.status = "ok" /\ dailyFetch.status = "ok")
            => /\ Len(m) > 0 =>
                    /\ \E i \in 1..Len(m) : selectedYear = year(m[i])
                    /\ \A i \in 1..Len(m) : year(m[i]) <= selectedYear
               /\ Len(d) > 0 =>
                    /\ selectedMonth = MonthEntry(pick \div 12, pick % 12)
                    /\ LocalDay(dateRange.start) = DayNum(pick \div 12, pick % 12, 1)
                    /\ LocalDay(dateRange.end) = DayNum(pick \div 12, (pick % 12) + 1, 0)

\* C25: once fetched, the monthly and the daily collection hold the records
\* received, in the order received, whatever year changes, month changes,
\* range edits, sort requests, page-size changes, page navigation and CSV
\* exports have followed.
C25_CollectionsAsReceived ==
    (pc = "done" /\ monthlyFetch.status = "ok" /\ dailyFetch.status = "ok")
        => /\ monthlyData = monthlyFetch.data
           /\ dailyData = dailyFetch.data

\* a CSV export of the table sorted by consumption, under a year filter and
\* an edited date range
C25_Witness ==
    /\ lastOp.op = "exportCsv"
    /\ sortConfig = [key |-> "total_consumption", direction |-> "asc"]
    /\ selectedYear = 2024
    /\ dateRange.start = UtcMidnight(DayNum(2025, 4, 10))
    /\ sortedMonthly # filteredMonthlyData
    /\ Len(monthlyData) = MaxLen + 1

\* C26: in the Angular dashboard, once loaded and after every year change,
\* month change and range edit, the chart data kept in the fields is the
\* data derived from the current collections, selected year and date range.
C26_ChartsCurrent ==
    (variant = "angular" /\ Interactive)
        => charts = updateCharts(monthlyData, selectedYear, dailyData, dateRange)

\* a year change to 2024 after an edit of the start of the range
C26_Witness ==
    /\ variant = "angular"
    /\ lastOp.op = "yearChange"
    /\ selectedYear = 2024
    /\ chosen.start = DayNum(2025, 4, 10)
    /\ Len(charts.monthly) > 0 /\ Len(charts.monthly) < Len(monthlyData)
    /\ Len(charts.daily) > 0 /\ Len(charts.daily) < Len(dailyData)

\* C27: in every state of the loaded table, whatever year changes, sort
\* requests, page-size changes and page navigations led to it, the current
\* page lies between 1 and totalPages, the page count of the records visible
\* under the current year filter.
C27_PageWithinRange ==
    (Interactive /\ variant \in HasTable)
        => /\ 1 <= currentPage
           /\ currentPage <= totalPages

\* The same bound in the states the table reaches without a year change
\* having shrunk the filtered records below the current page.
C27_LowerBound ==
    (Interactive /\ variant \in HasTable) => 1 <= currentPage

\* C28: the hourly view never clears its error: once a fetch has failed,
\* error stays set in every later step, and whenever the view is not loading
\* it shows the error, also after a later fetch for another day succeeded.
C28_ErrorNeverCleared ==
    [][hError # NULL => /\ hError' # NULL
                        /\ (~hLoading' => hourlyView' = "error")]_vars

\* the first fetch failed, the view went to another day, whose fetch
\* succeeded: the records of that day are in, and the view shows the error
C28_Witness ==
    /\ lastOp.op = "hourlyResolves"
    /\ lastOp.a.req = [day |-> date, id |-> 2]
    /\ issued = 2 /\ inflight = {}
    /\ hourlyData = HourlyGen(date)
    /\ hError = ErrHourly
    /\ hourlyView = "error"

\* C29: when each startup request is eventually answered or fails, the
\* dashboard eventually has loading = false, with an error or with the
\* collections written, also when processing the records throws; and from
\* then on loading stays false.
C29_LoadingEnds ==
    /\ <>(~loading /\ pc = "done")
    /\ [](~loading => [](~loading))

\* both requests were answered and processing the records threw: the catch
\* has set the error and cleared loading
C29_Witness ==
    /\ monthlyFetch.status = "ok" /\ dailyFetch.status = "ok"
    /\ pc = "done"
    /\ error = ErrType
    /\ ~loading

\* C30: for the same daily records and the same sequence of month changes
\* and range edits, the three front ends expose the same filtered daily
\* records, same members in the same order, the records of the last day of
\* the range included.
C30_VariantsAgree ==
    res.loaded =>
        \A v, w \in Variants :
            filterByRangeOf(v, arg.daily, res.range[v])
                = filterByRangeOf(w, arg.daily, res.range[w])

\* The part of it that the code keeps: the two React front ends agree.
C30_ReactVariantsAgree ==
    res.loaded =>
        \A v, w \in React :
            /\ res.range[v] = res.range[w]
            /\ filterByRangeOf(v, arg.daily, res.range[v])
                 = filterByRangeOf(w, arg.daily, res.range[w])

====
